---- MODULE Spec2Model ----
(***************************************************************************)
(* A model of notebooks/gufuncs.ipynb: the gufunc signature parser, the    *)
(* per-call dimension resolution and broadcasting, the axis reordering and *)
(* the vmap-based wrapper built by vectorize(signature)(func).             *)
(*                                                                         *)
(* A string is a sequence of one-character strings.  An array is modelled  *)
(* by its shape, a sequence of sizes.  A dimension name is a string (a     *)
(* sequence of characters), as re.findall returns it.                      *)
(***************************************************************************)
EXTENDS Integers, Sequences, FiniteSets, TLC

VARIABLES
    signature,         \* the string handed to vectorize()
    input_core_dims,   \* closure of wrapper: parsed input groups
    output_core_dims,  \* closure of wrapper: parsed output groups
    pc,                \* position in vectorize() / wrapper()
    call_args,         \* shapes of *args as the caller passed them
    axis,              \* <<>> for axis=None, <<a>> for axis=a
    args,              \* wrapper's local args (rebound by reorder_inputs)
    broadcast_shape,   \* local of broadcast_with_core_dims
    dim_sizes,         \* local of broadcast_with_core_dims
    broadcast_args,    \* wrapper's local broadcast_args
    result,            \* wrapper's local result
    error,             \* "" or the exception that ended the step
    invoked,           \* number of invocations of func in this call
    num_batch_dims,    \* wrapper's local num_batch_dims
    steps,             \* the statements of wrapper executed in this call
    previous           \* how the call before this one ended

vars == <<signature, input_core_dims, output_core_dims, pc, call_args, axis,
          args, broadcast_shape, dim_sizes, broadcast_args, result, error,
          invoked, num_batch_dims, steps, previous>>

(***************************************************************************)
(* Bounds of the model.                                                    *)
(***************************************************************************)
\* largest size of one dimension of an argument
MaxSize == 3
\* largest total number of dimensions over all arguments of one call
MaxDims == 3
\* explicit axis values range over -MaxAxis .. MaxAxis
MaxAxis == 1
\* number of single-character edits applied to a seed string (parser inputs)
MaxEdits == 1

(***************************************************************************)
(* Characters.  Python 3's \w on a str pattern matches [A-Za-z0-9_] and    *)
(* every other Unicode word character; "U+00E9" stands for one of those.   *)
(***************************************************************************)
AsciiWordChars == {"n", "m", "k", "_", "0"}
UnicodeWordChars == {"U+00E9"}
Alphabet == {"(", ")", ",", "-", ">", "n", "_", " ", "\n", "U+00E9"}

\* a character matched by \w                      (_DIMENSION_NAME = r'\w+')
IsWordChar(c) == c \in AsciiWordChars \cup UnicodeWordChars

At(s, i, c) == i >= 1 /\ i <= Len(s) /\ s[i] = c

(***************************************************************************)
(* The regular expressions, as the sets of positions at which a match that *)
(* starts at position i can end (the position after its last character):   *)
(* the backtracking matcher of re tries them all.                          *)
(***************************************************************************)
RECURSIVE DIMENSION_NAME(_, _)
\* \w+
DIMENSION_NAME(s, i) ==
    IF i > Len(s) \/ ~IsWordChar(s[i]) THEN {}
    ELSE {i + 1} \cup DIMENSION_NAME(s, i + 1)

RECURSIVE DimensionNames(_, _)
\* \w+(?:,\w+)*
DimensionNames(s, i) ==
    LET e == DIMENSION_NAME(s, i)
    IN  e \cup UNION {IF At(s, j, ",") THEN DimensionNames(s, j + 1) ELSE {}
                        : j \in e}

\* (?:\w+(?:,\w+)*)?
CORE_DIMENSION_LIST(s, i) == {i} \cup DimensionNames(s, i)

\* \((?:\w+(?:,\w+)*)?\)
ARGUMENT(s, i) ==
    IF At(s, i, "(")
    THEN {j + 1 : j \in {j \in CORE_DIMENSION_LIST(s, i + 1) : At(s, j, ")")}}
    ELSE {}

RECURSIVE ARGUMENT_LIST(_, _)
\* ARGUMENT(?:,ARGUMENT)*
ARGUMENT_LIST(s, i) ==
    LET e == ARGUMENT(s, i)
    IN  e \cup UNION {IF At(s, j, ",") THEN ARGUMENT_LIST(s, j + 1) ELSE {}
                        : j \in e}

\* $ without re.MULTILINE: the end of the string, or just before a newline
\* that is the last character of the string
DollarMatches(s, e) == e = Len(s) + 1 \/ (e = Len(s) /\ s[e] = "\n")

\* re.match('^ARGUMENT_LIST->ARGUMENT_LIST$', s)
SIGNATURE(s) ==
    \E j \in ARGUMENT_LIST(s, 1) :
        /\ At(s, j, "-")
        /\ At(s, j + 1, ">")
        /\ \E e \in ARGUMENT_LIST(s, j + 2) : DollarMatches(s, e)

(***************************************************************************)
(* str.split('->'), re.findall(_ARGUMENT, .), re.findall(r'\w+', .)        *)
(***************************************************************************)
RECURSIVE SplitArrow(_, _, _)
\* the parts of s from position i on, cur being the part read so far
SplitArrow(s, i, cur) ==
    IF i > Len(s) THEN <<cur>>
    ELSE IF At(s, i, "-") /\ At(s, i + 1, ">")
         THEN <<cur>> \o SplitArrow(s, i + 2, <<>>)
         ELSE SplitArrow(s, i + 1, Append(cur, s[i]))

RECURSIVE FindAllArguments(_, _)
\* leftmost, non-overlapping matches of _ARGUMENT in s from position i on
FindAllArguments(s, i) ==
    IF i > Len(s) THEN <<>>
    ELSE LET e == ARGUMENT(s, i)
         IN  IF e = {} THEN FindAllArguments(s, i + 1)
             ELSE LET j == CHOOSE x \in e : TRUE
                  IN  <<SubSeq(s, i, j - 1)>> \o FindAllArguments(s, j)

RECURSIVE FindAllNames(_, _)
\* leftmost, non-overlapping, greedy matches of \w+ in s from position i on
FindAllNames(s, i) ==
    IF i > Len(s) THEN <<>>
    ELSE LET e == DIMENSION_NAME(s, i)
         IN  IF e = {} THEN FindAllNames(s, i + 1)
             ELSE LET j == CHOOSE x \in e : \A y \in e : y <= x
                  IN  <<SubSeq(s, i, j - 1)>> \o FindAllNames(s, j)

\* [tuple(re.findall(_DIMENSION_NAME, arg)) for arg in re.findall(_ARGUMENT, l)]
ParseArgList(arg_list) ==
    LET found == FindAllArguments(arg_list, 1)
    IN  [g \in 1..Len(found) |-> FindAllNames(found[g], 1)]

\* _parse_gufunc_signature: ok = FALSE stands for the ValueError
\* 'not a valid gufunc signature'
parse_gufunc_signature(s) ==
    IF ~SIGNATURE(s) THEN [ok |-> FALSE, sides |-> <<>>]
    ELSE LET parts == SplitArrow(s, 1, <<>>)
         IN  [ok |-> TRUE,
              sides |-> [p \in 1..Len(parts) |-> ParseArgList(parts[p])]]

(***************************************************************************)
(* Shapes.                                                                 *)
(***************************************************************************)
Min(a, b) == IF a <= b THEN a ELSE b

\* shape[:n] of Python, n of either sign
ShapeUpTo(shape, n) ==
    IF n >= 0 THEN SubSeq(shape, 1, Min(n, Len(shape)))
    ELSE SubSeq(shape, 1, Len(shape) + n)

\* shape[-n:] of Python for n >= 1
ShapeLast(shape, n) ==
    IF n >= Len(shape) THEN shape
    ELSE SubSeq(shape, Len(shape) - n + 1, Len(shape))

Front(shape) == SubSeq(shape, 1, Len(shape) - 1)

Ok(v) == [error |-> "", value |-> v]
Raise(e) == [error |-> e, value |-> <<>>]

(***************************************************************************)
(* _update_dim_sizes(dim_sizes, arg, core_dims): the dict after the call,  *)
(* or the ValueError it raises.                                            *)
(***************************************************************************)
RECURSIVE UpdateLoopSilent(_, _, _, _)
\* a loop that keeps the first size of a name and ignores a conflicting one
UpdateLoopSilent(ds, core_dims, core_shape, j) ==
    IF j > Min(Len(core_dims), Len(core_shape)) THEN Ok(ds)
    ELSE IF core_dims[j] \in DOMAIN ds
         THEN UpdateLoopSilent(ds, core_dims, core_shape, j + 1)
         ELSE UpdateLoopSilent((core_dims[j] :> core_shape[j]) @@ ds,
                               core_dims, core_shape, j + 1)

RECURSIVE UpdateLoop(_, _, _, _)
\* for dim, size in zip(core_dims, core_shape), from the j-th pair on
UpdateLoop(ds, core_dims, core_shape, j) ==
    IF j > Min(Len(core_dims), Len(core_shape)) THEN Ok(ds)
    ELSE LET dim == core_dims[j]
             size == core_shape[j]
         IN  IF dim \in DOMAIN ds
             THEN IF size # ds[dim] THEN Raise("InconsistentDimension")
                  ELSE UpdateLoop(ds, core_dims, core_shape, j + 1)
             ELSE UpdateLoop((dim :> size) @@ ds, core_dims, core_shape, j + 1)

\* the rank test that never fires
RankTooSmallNever(arg, core_dims) == FALSE

\* arg.ndim < num_core_dims
RankTooSmall(arg, core_dims) == Len(arg) < Len(core_dims)

update_dim_sizes(ds, arg, core_dims) ==
    IF core_dims = <<>> THEN Ok(ds)
    ELSE IF RankTooSmall(arg, core_dims) THEN Raise("InsufficientRank")
    ELSE UpdateLoop(ds, core_dims, ShapeLast(arg, Len(core_dims)), 1)

(***************************************************************************)
(* np.lib.stride_tricks._broadcast_shape: numpy's broadcasting of shapes,  *)
(* aligned on the right, folded over the arguments.                        *)
(***************************************************************************)
RECURSIVE BroadcastTwo(_, _)
BroadcastTwo(a, b) ==
    IF a = <<>> THEN Ok(b)
    ELSE IF b = <<>> THEN Ok(a)
    ELSE LET x == a[Len(a)]
             y == b[Len(b)]
             rest == BroadcastTwo(Front(a), Front(b))
         IN  IF rest.error # "" THEN rest
             ELSE IF x = y \/ y = 1 THEN Ok(Append(rest.value, x))
             ELSE IF x = 1 THEN Ok(Append(rest.value, y))
             ELSE Raise("BroadcastError")

RECURSIVE BroadcastFrom(_, _, _)
BroadcastFrom(shapes, i, acc) ==
    IF i > Len(shapes) THEN Ok(acc)
    ELSE LET b == BroadcastTwo(acc, shapes[i])
         IN  IF b.error # "" THEN b ELSE BroadcastFrom(shapes, i + 1, b.value)

broadcast_shape_of(shapes) == BroadcastFrom(shapes, 1, <<>>)

(***************************************************************************)
(* _parse_input_dimensions(args, input_core_dims)                          *)
(***************************************************************************)
\* a prefix that forgets to take the core dimensions off
PrefixShapeWhole(arg, core_dims) == arg

\* ndim = arg.ndim - len(core_dims); arg.shape[:ndim]
PrefixShape(arg, core_dims) == ShapeUpTo(arg, Len(arg) - Len(core_dims))

RECURSIVE ParseLoop(_, _, _, _, _)
\* for arg, core_dims in zip(args, input_core_dims), from the i-th pair on
ParseLoop(as, icd, i, ds, bargs) ==
    IF i > Min(Len(as), Len(icd))
    THEN Ok([dim_sizes |-> ds, broadcast_args |-> bargs])
    ELSE LET u == update_dim_sizes(ds, as[i], icd[i])
         IN  IF u.error # "" THEN u
             ELSE ParseLoop(as, icd, i + 1, u.value,
                            Append(bargs, PrefixShape(as[i], icd[i])))

parse_input_dimensions(as, icd) ==
    LET l == ParseLoop(as, icd, 1, <<>>, <<>>)
    IN  IF l.error # "" THEN l
        ELSE LET b == broadcast_shape_of(l.value.broadcast_args)
             IN  IF b.error # "" THEN b
                 ELSE Ok([broadcast_shape |-> b.value,
                          dim_sizes |-> l.value.dim_sizes])

(***************************************************************************)
(* _calculate_shapes and jnp.broadcast_to                                  *)
(***************************************************************************)
\* broadcast_shape + tuple(dim_sizes[dim] for dim in core_dims); a missing
\* name is Python's KeyError
calculate_shape(bs, ds, core_dims) ==
    IF \E j \in 1..Len(core_dims) : core_dims[j] \notin DOMAIN ds
    THEN Raise("KeyError")
    ELSE Ok(bs \o [j \in 1..Len(core_dims) |-> ds[core_dims[j]]])

\* a broadcast_to that stretches nothing
BroadcastToExact(arg, shape) ==
    IF arg = shape THEN Ok(shape) ELSE Raise("BroadcastError")

\* jnp.broadcast_to(arg, shape): the shape of the result
broadcast_to(arg, shape) ==
    IF /\ Len(arg) <= Len(shape)
       /\ \A j \in 1..Len(arg) :
            LET t == shape[Len(shape) - Len(arg) + j]
            IN  arg[j] = t \/ arg[j] = 1
    THEN Ok(shape)
    ELSE Raise("BroadcastError")

(***************************************************************************)
(* jnp.moveaxis(a, source, destination) on a shape; an axis outside        *)
(* -ndim .. ndim-1 is an error.                                            *)
(***************************************************************************)
AxisInRange(a, ndim) == a >= -ndim /\ a <= ndim - 1
NormAxis(a, ndim) == IF a < 0 THEN a + ndim ELSE a

moveaxis(shape, source, destination) ==
    LET nd == Len(shape)
    IN  IF ~AxisInRange(source, nd) \/ ~AxisInRange(destination, nd)
        THEN Raise("AxisError")
        ELSE LET s == NormAxis(source, nd) + 1
                 d == NormAxis(destination, nd)
                 rest == SubSeq(shape, 1, s - 1) \o SubSeq(shape, s + 1, nd)
             IN  Ok(SubSeq(rest, 1, d) \o <<shape[s]>>
                    \o SubSeq(rest, d + 1, nd - 1))

(***************************************************************************)
(* verify_axis_is_supported, reorder_inputs, reorder_outputs               *)
(***************************************************************************)
\* all_core_dims: the set the two loops build
NamesOf(groups) ==
    UNION {{groups[i][j] : j \in 1..Len(groups[i])} : i \in 1..Len(groups)}

AllCoreDims(icd, ocd) == NamesOf(icd) \cup NamesOf(ocd)

\* the loop variable core_dims once both loops have ended: the last group
\* of the last non-empty list
LastCoreDims(icd, ocd) ==
    IF ocd # <<>> THEN ocd[Len(ocd)]
    ELSE IF icd # <<>> THEN icd[Len(icd)]
    ELSE <<>>

\* if len(core_dims) > 1: raise ValueError
verify_axis_is_supported(icd, ocd) ==
    IF Len(LastCoreDims(icd, ocd)) > 1 THEN Raise("AxisNotSupported")
    ELSE Ok(<<>>)

\* tuple(jnp.moveaxis(arg, axis, -1) if core_dims else arg
\*       for arg, core_dims in zip(args, input_core_dims))
reorder_inputs(as, a, icd) ==
    LET n == Min(Len(as), Len(icd))
        moved == [i \in 1..n |->
                    IF icd[i] # <<>> THEN moveaxis(as[i], a, -1) ELSE Ok(as[i])]
    IN  IF \E i \in 1..n : moved[i].error # "" THEN Raise("AxisError")
        ELSE Ok([i \in 1..n |-> moved[i].value])

\* a result that stays a tuple whatever its length
UnwrapNever(items) == [tuple |-> TRUE, items |-> items]

\* if len(result) == 1: (result,) = result
Unwrap(items) == [tuple |-> Len(items) # 1, items |-> items]

\* a result is [tuple, items]: a bare array is tuple = FALSE with one item,
\* so (result,) of a bare array has the same items
reorder_outputs(res, a, ocd) ==
    LET n == Min(Len(res.items), Len(ocd))
        moved == [g \in 1..n |->
                    IF ocd[g] # <<>> THEN moveaxis(res.items[g], -1, a)
                    ELSE Ok(res.items[g])]
    IN  IF \E g \in 1..n : moved[g].error # "" THEN Raise("AxisError")
        ELSE Ok(Unwrap([g \in 1..n |-> moved[g].value]))

(***************************************************************************)
(* The core function and vmap.  func stands for any function that keeps    *)
(* the signature's rank contract: given one core-shaped array per input    *)
(* group it returns one array per output group, of that group's core       *)
(* shape, bare when there is one output group and as a tuple otherwise     *)
(* (jnp.dot, jnp.mean, center).  A dimension no input declares gets the    *)
(* size the function chooses (stack_plus_minus stacks two arrays).         *)
(***************************************************************************)
NewDimSize == 2

func(icd, ocd, core_args) ==
    IF \/ Len(core_args) # Len(icd)
       \/ \E i \in 1..Len(icd) : Len(core_args[i]) # Len(icd[i])
    THEN Raise("CoreFuncError")
    ELSE LET places(name) ==
                 UNION {{<<i, j>> : j \in {j \in 1..Len(icd[i]) : icd[i][j] = name}}
                          : i \in 1..Len(icd)}
             size(name) == IF places(name) = {} THEN NewDimSize
                           ELSE LET p == CHOOSE p \in places(name) : TRUE
                                IN  core_args[p[1]][p[2]]
         IN  Ok([tuple |-> Len(ocd) > 1,
                 items |-> [g \in 1..Len(ocd) |->
                              [j \in 1..Len(ocd[g]) |-> size(ocd[g][j])]]])

RECURSIVE VmapCall(_, _, _, _)
\* vmap applied n times to func, called on arrays of shapes as: each vmap
\* maps over the leading axis of every argument and puts it back in front
\* of every output
VmapCall(n, icd, ocd, as) ==
    IF n <= 0 THEN func(icd, ocd, as)
    ELSE IF \E i \in 1..Len(as) : as[i] = <<>> THEN Raise("VmapError")
    ELSE IF \E i, j \in 1..Len(as) : as[i][1] # as[j][1]
         THEN Raise("VmapError")
    ELSE LET inner == VmapCall(n - 1, icd, ocd,
                               [i \in 1..Len(as) |-> Tail(as[i])])
         IN  IF inner.error # "" THEN inner
             ELSE Ok([tuple |-> inner.value.tuple,
                      items |-> [g \in 1..Len(inner.value.items) |->
                                   <<as[1][1]>> \o inner.value.items[g]]])

\* a batch count that forgets the core dimensions
NumBatchDimsWholeRank(bargs, icd) == Len(bargs[1])

\* a batch count that takes the rank of the last argument with the first group
NumBatchDimsLastArg(bargs, icd) == Len(bargs[Len(bargs)]) - Len(icd[1])

\* num_batch_dims = len(broadcast_args[0].shape) - len(input_core_dims[0])
NumBatchDims(bargs, icd) == Len(bargs[1]) - Len(icd[1])

\* for _ in range(num_batch_dims): the number of times vmap is applied
VmapApplications(n) == IF n > 0 THEN n ELSE 0

(***************************************************************************)
(* Inputs: the signatures that are decorated and the calls that are made.  *)
(***************************************************************************)
\* (n)->()   (mean, magnitude)
Sig1 == <<"(", "n", ")", "-", ">", "(", ")">>
\* (n)->(),(n)   (center)
Sig2 == <<"(", "n", ")", "-", ">", "(", ")", ",", "(", "n", ")">>
\* ()->(n)   (stack_plus_minus)
Sig3 == <<"(", ")", "-", ">", "(", "n", ")">>
\* (n,m),(m)->(n)   (matvec)
Sig4 == <<"(", "n", ",", "m", ")", ",", "(", "m", ")", "-", ">", "(", "n", ")">>
\* (n),(n)->()   (vecvec)
Sig5 == <<"(", "n", ")", ",", "(", "n", ")", "-", ">", "(", ")">>
\* (n),(m)->()   (two names, one per input)
Sig6 == <<"(", "n", ")", ",", "(", "m", ")", "-", ">", "(", ")">>
\* (n)->(n,n)   (one name, twice in the output group)
Sig7 == <<"(", "n", ")", "-", ">", "(", "n", ",", "n", ")">>
\* ()->()   (no name)
Sig8 == <<"(", ")", "-", ">", "(", ")">>
\* (n,m)->()   (two names in one group)
Sig9 == <<"(", "n", ",", "m", ")", "-", ">", "(", ")">>
\* (n,n),(n)->()   (one name, twice in the first group)
Sig10 == <<"(", "n", ",", "n", ")", ",", "(", "n", ")", "-", ">", "(", ")">>
\* (),(n)->(n)   (an input with no core dimension)
Sig11 == <<"(", ")", ",", "(", "n", ")", "-", ">", "(", "n", ")">>
\* (n,n)->(n)   (trace-like)
Sig12 == <<"(", "n", ",", "n", ")", "-", ">", "(", "n", ")">>

Signatures == {Sig1, Sig2, Sig3, Sig4, Sig5, Sig6, Sig7, Sig8, Sig9, Sig10, Sig11, Sig12}

\* the sizes of the dimensions of the arguments of a call
Sizes == 1..MaxSize

RECURSIVE RankSum(_, _)
\* the number of dimensions of the first i of the arguments of ranks rk
RankSum(rk, i) == IF i = 0 THEN 0 ELSE rk[i] + RankSum(rk, i - 1)

\* the ranks of n arguments with at most MaxDims dimensions in all
RankLists(n) == {rk \in [1..n -> 0..MaxDims] : RankSum(rk, n) <= MaxDims}

\* the shapes of ranks rk whose sizes, laid end to end, are flat
ShapesFrom(rk, flat) ==
    [i \in 1..Len(rk) |->
        SubSeq(flat, RankSum(rk, i - 1) + 1, RankSum(rk, i))]

None == <<>>
AxisChoices == {None} \cup {<<a>> : a \in -MaxAxis..MaxAxis}

NoResult == [tuple |-> FALSE, items |-> <<>>]

(***************************************************************************)
(* Inputs of the parser: the signatures above, some strings with a side or *)
(* an arrow missing or doubled, and every string one gets from those by    *)
(* inserting or deleting up to MaxEdits characters.                        *)
(***************************************************************************)
\* ->()   (no group on the left)
Seed1 == <<"-", ">", "(", ")">>
\* ()->   (no group on the right)
Seed2 == <<"(", ")", "-", ">">>
\* ()->()->()   (two arrows)
Seed3 == <<"(", ")", "-", ">", "(", ")", "-", ">", "(", ")">>
\* (n),(n_0)->(n_0,n)   (longer names)
Seed4 == <<"(", "n", ")", ",", "(", "n", "_", "0", ")", "-", ">", "(", "n", "_", "0", ",", "n", ")">>

ParserSeeds == Signatures \cup {Seed1, Seed2, Seed3, Seed4}

InsertAt(s, i, c) == SubSeq(s, 1, i - 1) \o <<c>> \o SubSeq(s, i, Len(s))
DeleteAt(s, i) == SubSeq(s, 1, i - 1) \o SubSeq(s, i + 1, Len(s))

EditsOf(s) ==
    {InsertAt(s, i, c) : i \in 1..Len(s) + 1, c \in Alphabet}
    \cup {DeleteAt(s, i) : i \in 1..Len(s)}

RECURSIVE Edited(_, _)
Edited(S, k) ==
    IF k = 0 THEN S ELSE Edited(S \cup UNION {EditsOf(s) : s \in S}, k - 1)

\* the parser's inputs with at most k edits
ParserInputs(k) == Edited(ParserSeeds, k)

(***************************************************************************)
(* The state machine.  vectorize(signature) parses once; every call of the *)
(* wrapper then runs its steps in program order, and an exception ends the *)
(* call (pc = "done" with error set).                                      *)
(***************************************************************************)
closure == <<signature, input_core_dims, output_core_dims>>
locals == <<call_args, axis, args, broadcast_shape, dim_sizes, broadcast_args,
            result, invoked, num_batch_dims, steps>>

FreshLocals ==
    /\ call_args = <<>>
    /\ axis = None
    /\ args = <<>>
    /\ broadcast_shape = <<>>
    /\ dim_sizes = <<>>
    /\ broadcast_args = <<>>
    /\ result = NoResult
    /\ invoked = 0
    /\ num_batch_dims = 0
    /\ steps = <<>>

Undecorated ==
    /\ pc = "vectorize"
    /\ input_core_dims = <<>>
    /\ output_core_dims = <<>>
    /\ error = ""
    /\ previous = "none"
    /\ FreshLocals

Init == signature \in Signatures /\ Undecorated

InitParse == signature \in ParserInputs(MaxEdits) /\ Undecorated

\* vectorize(signature):
\*   input_core_dims, output_core_dims = _parse_gufunc_signature(signature)
Vectorize ==
    /\ pc = "vectorize"
    /\ LET p == parse_gufunc_signature(signature)
       IN  IF ~p.ok
           THEN /\ pc' = "invalid"
                /\ error' = "InvalidSignature"
                /\ UNCHANGED <<input_core_dims, output_core_dims>>
           ELSE IF Len(p.sides) # 2
           THEN /\ pc' = "invalid"
                /\ error' = "UnpackError"
                /\ UNCHANGED <<input_core_dims, output_core_dims>>
           ELSE /\ pc' = "idle"
                /\ error' = ""
                /\ input_core_dims' = p.sides[1]
                /\ output_core_dims' = p.sides[2]
    /\ UNCHANGED <<signature, locals, previous>>

\* an entry that goes straight to the broadcasting, axis or not
EntryStepSkipsAxis(a) == "broadcast"

\* if axis is not None: ... (the first statement after the entry)
EntryStep(a) == IF a = None THEN "broadcast" ELSE "verify_axis"

\* wrapper(*args, axis=None) is entered
Call ==
    /\ pc = "idle"
    /\ \E n \in 0..Len(input_core_dims) + 1 :
         \E rk \in RankLists(n) :
           \E flat \in [1..RankSum(rk, n) -> Sizes] :
             \E a \in AxisChoices :
               /\ call_args' = ShapesFrom(rk, flat)
               /\ args' = ShapesFrom(rk, flat)
               /\ axis' = a
               /\ pc' = EntryStep(a)
    /\ UNCHANGED <<closure, broadcast_shape, dim_sizes, broadcast_args,
                   result, error, invoked, num_batch_dims, steps, previous>>

\* verify_axis_is_supported(input_core_dims, output_core_dims)
VerifyAxis ==
    /\ pc = "verify_axis"
    /\ LET v == verify_axis_is_supported(input_core_dims, output_core_dims)
       IN  IF v.error # ""
           THEN pc' = "done" /\ error' = v.error
           ELSE pc' = "reorder_inputs" /\ error' = ""
    /\ steps' = Append(steps, "verify_axis")
    /\ UNCHANGED <<closure, call_args, axis, args, broadcast_shape, dim_sizes,
                   broadcast_args, result, invoked, num_batch_dims, previous>>

\* args = reorder_inputs(args, axis, input_core_dims)
ReorderInputs ==
    /\ pc = "reorder_inputs"
    /\ LET r == reorder_inputs(args, axis[1], input_core_dims)
       IN  IF r.error # ""
           THEN pc' = "done" /\ error' = r.error /\ UNCHANGED args
           ELSE pc' = "broadcast" /\ error' = "" /\ args' = r.value
    /\ steps' = Append(steps, "reorder_inputs")
    /\ UNCHANGED <<closure, call_args, axis, broadcast_shape, dim_sizes,
                   broadcast_args, result, invoked, num_batch_dims, previous>>

\* broadcast_with_core_dims, first half: the arity test and
\* _parse_input_dimensions(args, input_core_dims)
Resolve ==
    /\ pc = "broadcast"
    /\ IF Len(args) # Len(input_core_dims)
       THEN /\ pc' = "done"
            /\ error' = "ArityMismatch"
            /\ UNCHANGED <<broadcast_shape, dim_sizes>>
       ELSE LET r == parse_input_dimensions(args, input_core_dims)
            IN  IF r.error # ""
                THEN /\ pc' = "done"
                     /\ error' = r.error
                     /\ UNCHANGED <<broadcast_shape, dim_sizes>>
                ELSE /\ pc' = "expand"
                     /\ error' = ""
                     /\ broadcast_shape' = r.value.broadcast_shape
                     /\ dim_sizes' = r.value.dim_sizes
    /\ steps' = Append(steps, "resolve")
    /\ UNCHANGED <<closure, call_args, axis, args, broadcast_args, result,
                   invoked, num_batch_dims, previous>>

\* broadcast_with_core_dims, second half: _calculate_shapes and
\* jnp.broadcast_to on every argument
Expand ==
    /\ pc = "expand"
    /\ LET n == Min(Len(args), Len(input_core_dims))
           input_shapes == [i \in 1..Len(input_core_dims) |->
                              calculate_shape(broadcast_shape, dim_sizes,
                                              input_core_dims[i])]
       IN  IF \E i \in 1..Len(input_core_dims) : input_shapes[i].error # ""
           THEN pc' = "done" /\ error' = "KeyError" /\ UNCHANGED broadcast_args
           ELSE LET b == [i \in 1..n |->
                            broadcast_to(args[i], input_shapes[i].value)]
                IN  IF \E i \in 1..n : b[i].error # ""
                    THEN /\ pc' = "done"
                         /\ error' = "BroadcastError"
                         /\ UNCHANGED broadcast_args
                    ELSE /\ pc' = "invoke"
                         /\ error' = ""
                         /\ broadcast_args' = [i \in 1..n |-> b[i].value]
    /\ steps' = Append(steps, "expand")
    /\ UNCHANGED <<closure, call_args, axis, args, broadcast_shape, dim_sizes,
                   result, invoked, num_batch_dims, previous>>

\* num_batch_dims, the vmap loop and result = vectorized_func(*broadcast_args)
Invoke ==
    /\ pc = "invoke"
    /\ LET n == NumBatchDims(broadcast_args, input_core_dims)
           r == VmapCall(VmapApplications(n), input_core_dims,
                         output_core_dims, broadcast_args)
       IN  /\ num_batch_dims' = n
           /\ invoked' = IF r.error = "VmapError" THEN invoked ELSE invoked + 1
           /\ IF r.error # ""
              THEN pc' = "done" /\ error' = r.error /\ UNCHANGED result
              ELSE /\ pc' = IF axis = None THEN "done" ELSE "reorder_outputs"
                   /\ error' = ""
                   /\ result' = r.value
    /\ steps' = Append(steps, "invoke")
    /\ UNCHANGED <<closure, call_args, axis, args, broadcast_shape, dim_sizes,
                   broadcast_args, previous>>

\* result = reorder_outputs(result, axis, output_core_dims)
ReorderOutputs ==
    /\ pc = "reorder_outputs"
    /\ LET r == reorder_outputs(result, axis[1], output_core_dims)
       IN  IF r.error # ""
           THEN pc' = "done" /\ error' = r.error /\ result' = NoResult
           ELSE pc' = "done" /\ error' = "" /\ result' = r.value
    /\ steps' = Append(steps, "reorder_outputs")
    /\ UNCHANGED <<closure, call_args, axis, args, broadcast_shape, dim_sizes,
                   broadcast_args, invoked, num_batch_dims, previous>>

\* a return that leaves one more (empty) group in the captured output list
ReturnExtendsOutputs ==
    /\ pc = "done"
    /\ pc' = "idle"
    /\ error' = ""
    /\ call_args' = <<>>
    /\ axis' = None
    /\ args' = <<>>
    /\ broadcast_shape' = <<>>
    /\ dim_sizes' = <<>>
    /\ broadcast_args' = <<>>
    /\ result' = NoResult
    /\ invoked' = 0
    /\ num_batch_dims' = 0
    /\ steps' = <<>>
    /\ previous' = IF error = "" THEN "returned" ELSE "raised"
    /\ output_core_dims' = Append(output_core_dims, <<>>)
    /\ UNCHANGED <<signature, input_core_dims>>

\* the wrapper returns or raises; its locals are gone
Return ==
    /\ pc = "done"
    /\ pc' = "idle"
    /\ error' = ""
    /\ call_args' = <<>>
    /\ axis' = None
    /\ args' = <<>>
    /\ broadcast_shape' = <<>>
    /\ dim_sizes' = <<>>
    /\ broadcast_args' = <<>>
    /\ result' = NoResult
    /\ invoked' = 0
    /\ num_batch_dims' = 0
    /\ steps' = <<>>
    /\ previous' = IF error = "" THEN "returned" ELSE "raised"
    /\ UNCHANGED closure

Next ==
    \/ Vectorize
    \/ Call
    \/ VerifyAxis
    \/ ReorderInputs
    \/ Resolve
    \/ Expand
    \/ Invoke
    \/ ReorderOutputs
    \/ Return

Spec == Init /\ [][Next]_vars

\* decoration alone, over the parser's inputs
SpecParse == InitParse /\ [][Vectorize]_vars

(***************************************************************************)
(* Vocabulary of the properties, stated from the signature and the shapes  *)
(* of a list of arguments as, independently of the operators above.        *)
(***************************************************************************)
Groups == 1..Len(input_core_dims)

CoreCount(i) == Len(input_core_dims[i])

ArityRight(as) == Len(as) = Len(input_core_dims)

\* some argument has fewer dimensions than its group has names
SomeRankShort(as) ==
    \E i \in Groups : i <= Len(as) /\ Len(as[i]) < CoreCount(i)

FirstShort(as) ==
    CHOOSE i \in Groups :
        /\ i <= Len(as) /\ Len(as[i]) < CoreCount(i)
        /\ \A k \in 1..i - 1 : Len(as[k]) >= CoreCount(k)

RanksSufficient(as) == ArityRight(as) /\ ~SomeRankShort(as)

\* the occurrences <<i, j>> of names in the first n input groups
Occurrences(n) == UNION {{<<i, j>> : j \in 1..CoreCount(i)} : i \in 1..n}

NameAt(p) == input_core_dims[p[1]][p[2]]

\* the trailing core shape entry paired with the occurrence p
SizeAt(as, p) == as[p[1]][Len(as[p[1]]) - CoreCount(p[1]) + p[2]]

\* some name is paired with two different sizes within the first n arguments
SizeConflict(as, n) ==
    \E p, q \in Occurrences(n) :
        NameAt(p) = NameAt(q) /\ SizeAt(as, p) # SizeAt(as, q)

NotAfter(p, q) == p[1] < q[1] \/ (p[1] = q[1] /\ p[2] <= q[2])

FirstOccurrence(name) ==
    CHOOSE p \in Occurrences(Len(input_core_dims)) :
        /\ NameAt(p) = name
        /\ \A q \in Occurrences(Len(input_core_dims)) :
             NameAt(q) = name => NotAfter(p, q)

\* the shape minus its trailing declared core entries
PrefixOf(as, i) == SubSeq(as[i], 1, Len(as[i]) - CoreCount(i))

MaxPrefixRank(as) ==
    LET ranks == {Len(PrefixOf(as, i)) : i \in Groups}
    IN  CHOOSE r \in ranks : \A x \in ranks : x <= r

\* the prefix entries that right-alignment puts at position p of the result
AlignedEntries(as, p) ==
    LET pad(i) == MaxPrefixRank(as) - Len(PrefixOf(as, i))
    IN  {PrefixOf(as, i)[p - pad(i)] : i \in {i \in Groups : p > pad(i)}}

PrefixConflict(as) ==
    \E p \in 1..MaxPrefixRank(as) :
        \E x, y \in AlignedEntries(as, p) : x # y /\ x # 1 /\ y # 1

BroadcastOfPrefixes(as) ==
    [p \in 1..MaxPrefixRank(as) |->
        LET big == AlignedEntries(as, p) \ {1}
        IN  IF big = {} THEN 1 ELSE CHOOSE x \in big : TRUE]

\* arguments that resolve: right arity, sufficient ranks, consistent sizes,
\* broadcastable prefixes
Resolvable(as) ==
    /\ RanksSufficient(as)
    /\ ~SizeConflict(as, Len(as))
    /\ ~PrefixConflict(as)

\* the core shape of output group g
OutputCoreShape(as, g) ==
    [j \in 1..Len(output_core_dims[g]) |->
        LET name == output_core_dims[g][j]
        IN  IF name \in NamesOf(input_core_dims)
            THEN SizeAt(as, FirstOccurrence(name))
            ELSE NewDimSize]

\* a shape with the entry at (0-based, normalised) position a moved to the end
AxisToLast(shape, a) ==
    LET s == (IF a < 0 THEN a + Len(shape) ELSE a) + 1
    IN  [j \in 1..Len(shape) |->
            IF j < s THEN shape[j]
            ELSE IF j < Len(shape) THEN shape[j + 1] ELSE shape[s]]

\* a shape with its last entry moved to (0-based, normalised) position a
LastToAxis(shape, a) ==
    LET d == (IF a < 0 THEN a + Len(shape) ELSE a) + 1
    IN  [j \in 1..Len(shape) |->
            IF j < d THEN shape[j]
            ELSE IF j = d THEN shape[Len(shape)] ELSE shape[j - 1]]

\* the arguments as the claim says an explicit axis a rebinds them
Rebound(as, a) ==
    [i \in 1..Len(as) |->
        IF CoreCount(i) > 0 THEN AxisToLast(as[i], a) ELSE as[i]]

ResolveErrors == {"InsufficientRank", "InconsistentDimension", "BroadcastError"}
AxisStepErrors == {"AxisNotSupported", "AxisError"}

\* dimension resolution has, in this call, returned or raised
ResolutionFailed == pc = "done" /\ error \in ResolveErrors
ResolutionReturned == pc = "expand"

(***************************************************************************)
(* C1.  A call whose number of positional arguments differs from the       *)
(* number of input groups fails with ArityMismatch and never reaches the   *)
(* core function, with axis=None and with an explicit axis, with too few   *)
(* and with too many arguments.  (Stated for the calls that get as far as  *)
(* the arity test: a call that the axis check or the input reordering has  *)
(* already ended is left aside.)                                           *)
(***************************************************************************)
C1_WrongArityIsArityMismatch ==
    (pc = "done" /\ ~ArityRight(call_args) /\ error \notin AxisStepErrors)
        => (error = "ArityMismatch" /\ invoked = 0)

(***************************************************************************)
(* C2.  With an explicit axis, the axis check passes exactly when the      *)
(* signature has one distinct core-dimension name over all its input and   *)
(* output groups; otherwise the call fails with AxisNotSupported.          *)
(***************************************************************************)
C2_AxisCheckIffOneName ==
    /\ pc = "reorder_inputs"
         => Cardinality(AllCoreDims(input_core_dims, output_core_dims)) = 1
    /\ (pc = "done" /\ error = "AxisNotSupported")
         => Cardinality(AllCoreDims(input_core_dims, output_core_dims)) # 1

(***************************************************************************)
(* C3.  For arguments of the right number and of sufficient rank,          *)
(* resolution fails with InconsistentDimension exactly when some name is   *)
(* paired with two different sizes among the trailing core entries of the  *)
(* inputs; when resolution returns, the table holds exactly the names of   *)
(* the input groups, each mapped to the size of every one of its           *)
(* occurrences, the first occurrence in argument order included.           *)
(***************************************************************************)
C3_InconsistentIffSizeConflict ==
    /\ (ResolutionFailed /\ RanksSufficient(args))
         => (error = "InconsistentDimension" <=> SizeConflict(args, Len(args)))
    /\ ResolutionReturned
         => /\ RanksSufficient(args)
            /\ ~SizeConflict(args, Len(args))
            /\ DOMAIN dim_sizes = NamesOf(input_core_dims)
            /\ \A q \in Occurrences(Len(args)) :
                 dim_sizes[NameAt(q)] = SizeAt(args, q)
            /\ \A name \in NamesOf(input_core_dims) :
                 dim_sizes[name] = SizeAt(args, FirstOccurrence(name))

\* resolution has raised InconsistentDimension for a name that two different
\* arguments of sufficient rank pair with different sizes
C3_Witness ==
    /\ ResolutionFailed
    /\ error = "InconsistentDimension"
    /\ RanksSufficient(args)
    /\ \E p, q \in Occurrences(Len(args)) :
         p[1] # q[1] /\ NameAt(p) = NameAt(q) /\ SizeAt(args, p) # SizeAt(args, q)

C5_RankAdditivity ==
    (pc = "done" /\ axis = None /\ Resolvable(call_args))
        => /\ error = ""
           /\ invoked = 1
           /\ Len(result.items) = Len(output_core_dims)
           /\ \A g \in 1..Len(output_core_dims) :
                result.items[g] =
                    BroadcastOfPrefixes(call_args) \o OutputCoreShape(call_args, g)

\* a call with axis=None has returned for two arguments whose prefixes
\* differ and broadcast to a non-empty shape
C5_Witness ==
    /\ pc = "done"
    /\ axis = None
    /\ error = ""
    /\ Len(call_args) = 2
    /\ PrefixOf(call_args, 1) # PrefixOf(call_args, 2)
    /\ \E p \in 1..Len(broadcast_shape) : broadcast_shape[p] > 1
    /\ \E g \in 1..Len(output_core_dims) : output_core_dims[g] # <<>>

(***************************************************************************)
(* C6.  Axis correctness: for a signature with exactly one distinct        *)
(* core-dimension name and an axis a in range for every argument and every *)
(* output that declares the core dimension, the call with axis=a moves     *)
(* dimension a of each such input to the last position, leaves the inputs  *)
(* with an empty group as they are, and returns the outputs with the last  *)
(* dimension moved back to position a where the group declares the core    *)
(* dimension and unchanged where it does not; '(n)->()' on shape S thus    *)
(* returns S without entry a.                                              *)
(***************************************************************************)
AxisFitsInputs(as, a) ==
    \A i \in 1..Len(as) :
        (i \in Groups /\ CoreCount(i) > 0) => AxisInRange(a, Len(as[i]))

\* what the call is to return for output group g
C6_Expected(as, a, g) ==
    LET mapped == BroadcastOfPrefixes(Rebound(as, a))
                    \o OutputCoreShape(Rebound(as, a), g)
    IN  IF output_core_dims[g] # <<>> THEN LastToAxis(mapped, a) ELSE mapped

AxisFitsOutputs(as, a) ==
    \A g \in 1..Len(output_core_dims) :
        output_core_dims[g] # <<>>
            => AxisInRange(a, Len(BroadcastOfPrefixes(Rebound(as, a)))
                                + Len(output_core_dims[g]))

C6_AxisCorrectness ==
    (/\ pc = "done"
     /\ axis # None
     /\ Cardinality(AllCoreDims(input_core_dims, output_core_dims)) = 1
     /\ ArityRight(call_args)
     /\ AxisFitsInputs(call_args, axis[1])
     /\ Resolvable(Rebound(call_args, axis[1]))
     /\ AxisFitsOutputs(call_args, axis[1]))
        => /\ error = ""
           /\ args = Rebound(call_args, axis[1])
           /\ Len(result.items) = Len(output_core_dims)
           /\ \A g \in 1..Len(output_core_dims) :
                result.items[g] = C6_Expected(call_args, axis[1], g)

(***************************************************************************)
(* C7.  The parser accepts all and only the strings of the grammar         *)
(*   signature := groups '->' groups,  groups := group (',' group)*,       *)
(*   group := '(' [name (',' name)*] ')',  name := [A-Za-z0-9_]+ ;         *)
(* every other string, a string with whitespace anywhere included, fails   *)
(* with InvalidSignature.                                                  *)
(***************************************************************************)
RECURSIVE GrammarScan(_, _, _, _)
\* a left-to-right scan of s from position i: st is what has just been read
\* ("start": nothing of the next group, "open": '(', "name": a name
\* character, "comma": ',' inside a group, "closed": ')', "dash": '-'),
\* side is 1 before the arrow and 2 after it
GrammarScan(s, i, st, side) ==
    IF i > Len(s) THEN st = "closed" /\ side = 2
    ELSE LET c == s[i]
         IN  CASE st = "start" ->
                    c = "(" /\ GrammarScan(s, i + 1, "open", side)
               [] st = "open" ->
                    \/ c = ")" /\ GrammarScan(s, i + 1, "closed", side)
                    \/ c \in AsciiWordChars /\ GrammarScan(s, i + 1, "name", side)
               [] st = "name" ->
                    \/ c = ")" /\ GrammarScan(s, i + 1, "closed", side)
                    \/ c = "," /\ GrammarScan(s, i + 1, "comma", side)
                    \/ c \in AsciiWordChars /\ GrammarScan(s, i + 1, "name", side)
               [] st = "comma" ->
                    c \in AsciiWordChars /\ GrammarScan(s, i + 1, "name", side)
               [] st = "closed" ->
                    \/ c = "," /\ GrammarScan(s, i + 1, "start", side)
                    \/ c = "-" /\ side = 1 /\ GrammarScan(s, i + 1, "dash", side)
               [] st = "dash" ->
                    c = ">" /\ GrammarScan(s, i + 1, "start", 2)
               [] OTHER -> FALSE

InGrammar(s) == GrammarScan(s, 1, "start", 1)

C7_AcceptsExactlyTheGrammar ==
    /\ pc = "idle" => InGrammar(signature)
    /\ (pc = "invalid" /\ error = "InvalidSignature") => ~InGrammar(signature)
    /\ pc = "invalid" => error = "InvalidSignature"

(***************************************************************************)
(* C8.  Parser round trip: an accepted signature yields two sides, one     *)
(* tuple of names per group in order, and joining the structure again with *)
(* '(', ',', ')' and '->' gives back the signature string.                 *)
(***************************************************************************)
RECURSIVE JoinWith(_, _)
\* sep.join(parts)
JoinWith(parts, sep) ==
    IF parts = <<>> THEN <<>>
    ELSE IF Len(parts) = 1 THEN parts[1]
    ELSE parts[1] \o sep \o JoinWith(Tail(parts), sep)

GroupText(names) == <<"(">> \o JoinWith(names, <<",">>) \o <<")">>

SideText(side) ==
    JoinWith([g \in 1..Len(side) |-> GroupText(side[g])], <<",">>)

SignatureText(ins, outs) == SideText(ins) \o <<"-", ">">> \o SideText(outs)

C8_ParserRoundTrip ==
    pc = "idle"
        => SignatureText(input_core_dims, output_core_dims) = signature

C10_ShortRankIsInsufficientRank ==
    (/\ pc = "done"
     /\ ArityRight(call_args)
     /\ SomeRankShort(call_args)
     /\ error \notin AxisStepErrors)
        => (error = "InsufficientRank" /\ invoked = 0)

(***************************************************************************)
(* C10 as amended.  With the right number of arguments, an argument of     *)
(* rank less than k makes the call fail before the core function is        *)
(* reached.  The error is InsufficientRank unless an earlier step fails    *)
(* first: with an explicit axis the axis check or the input reordering, or *)
(* the resolution of the arguments that precede the first short one, when  *)
(* they pair a name with two different sizes (InconsistentDimension).  An  *)
(* argument with an empty group never raises InsufficientRank.             *)
(***************************************************************************)
C10_ShortRankFails ==
    /\ (pc = "done" /\ ArityRight(call_args) /\ SomeRankShort(call_args))
         => /\ error # ""
            /\ invoked = 0
            /\ error \notin AxisStepErrors
                 => IF SizeConflict(args, FirstShort(args) - 1)
                    THEN error = "InconsistentDimension"
                    ELSE error = "InsufficientRank"
    /\ (pc = "done" /\ error = "InsufficientRank")
         => \E i \in Groups :
              i <= Len(args) /\ CoreCount(i) > 0 /\ Len(args[i]) < CoreCount(i)

\* a call with an explicit axis, the right number of arguments and one of
\* them too short has failed with InsufficientRank
C10_Witness ==
    /\ pc = "done"
    /\ axis # None
    /\ ArityRight(call_args)
    /\ SomeRankShort(call_args)
    /\ error = "InsufficientRank"
    /\ invoked = 0

(***************************************************************************)
(* C11.  The steps of a call happen in this order: with an explicit axis,  *)
(* the axis-support check and then the input reordering; then dimension    *)
(* resolution; then broadcast expansion; then one invocation of the        *)
(* batched core function; then, with an explicit axis, the output          *)
(* reordering.  The core function is invoked at most once per call, never  *)
(* after the axis check, the arity check, resolution or expansion has      *)
(* failed, and no step of a later phase precedes one of an earlier phase.  *)
(***************************************************************************)
\* the statements of a whole call, in the order the claim gives
AllSteps(ax) ==
    IF ax = None THEN <<"resolve", "expand", "invoke">>
    ELSE <<"verify_axis", "reorder_inputs", "resolve", "expand", "invoke",
           "reorder_outputs">>

\* the statement has been executed in this call
Reached(step) == \E i \in 1..Len(steps) : steps[i] = step

EarlyErrors ==
    {"AxisNotSupported", "ArityMismatch", "KeyError"} \cup ResolveErrors

C11_StepOrder ==
    /\ Len(steps) <= Len(AllSteps(axis))
    /\ steps = SubSeq(AllSteps(axis), 1, Len(steps))
    /\ invoked = IF Reached("invoke") THEN 1 ELSE 0
    /\ (pc = "done" /\ error \in EarlyErrors) => invoked = 0
    /\ (pc = "done" /\ error = "")
         => invoked = 1 /\ steps = AllSteps(axis)

\* a call with an explicit axis has gone through all six steps and returned
C11_Witness ==
    /\ pc = "done"
    /\ error = ""
    /\ axis # None
    /\ invoked = 1
    /\ steps = <<"verify_axis", "reorder_inputs", "resolve", "expand",
                 "invoke", "reorder_outputs">>

(***************************************************************************)
(* C12.  In every call that reaches the batch mapper, vmap is applied      *)
(* len(broadcast_shape) times: num_batch_dims, computed from the first     *)
(* broadcast argument and the first input group, is the rank of any        *)
(* broadcast argument minus the length of its own group, and when it is 0  *)
(* the core function is called directly on the broadcast arguments.        *)
(***************************************************************************)
MapperReached == Reached("invoke")

C12_BatchCountIsBroadcastRank ==
    /\ MapperReached
         => /\ VmapApplications(num_batch_dims) = Len(broadcast_shape)
            /\ Len(broadcast_args) = Len(input_core_dims)
            /\ \A i \in 1..Len(broadcast_args) :
                 Len(broadcast_args[i]) - Len(input_core_dims[i])
                     = num_batch_dims
    /\ (/\ steps # <<>>
        /\ steps[Len(steps)] = "invoke"
        /\ num_batch_dims = 0)
         => /\ error = func(input_core_dims, output_core_dims,
                            broadcast_args).error
            /\ error = ""
                 => result = func(input_core_dims, output_core_dims,
                                  broadcast_args).value

\* the mapper has run with at least one batch dimension on two arguments
\* whose groups have different lengths
C12_Witness ==
    /\ MapperReached
    /\ num_batch_dims >= 1
    /\ Len(broadcast_args) = 2
    /\ Len(input_core_dims[1]) # Len(input_core_dims[2])

(***************************************************************************)
(* C13.  Whenever dimension resolution succeeds, broadcast expansion does  *)
(* not fail: every core name of every argument is in the dimension-size    *)
(* table, every argument's shape is broadcast-compatible with its target   *)
(* shape broadcast_shape + (dim_sizes[name] for each of its core names),   *)
(* the expanded argument has exactly that target shape, and an argument    *)
(* that already has its target shape keeps its shape.                      *)
(***************************************************************************)
NamesResolved(i) ==
    \A j \in 1..CoreCount(i) : input_core_dims[i][j] \in DOMAIN dim_sizes

TargetShape(i) ==
    broadcast_shape
        \o [j \in 1..CoreCount(i) |-> dim_sizes[input_core_dims[i][j]]]

\* shape a, aligned to the right of shape t, has at every position the entry
\* of t or 1
Compatible(a, t) ==
    /\ Len(a) <= Len(t)
    /\ \A j \in 1..Len(a) : a[j] \in {1, t[Len(t) - Len(a) + j]}

ExpansionErrors == {"KeyError", "BroadcastError"}

C13_ExpansionCannotFail ==
    /\ ResolutionReturned
         => /\ Len(args) = Len(input_core_dims)
            /\ \A i \in Groups :
                 NamesResolved(i) /\ Compatible(args[i], TargetShape(i))
    /\ Reached("expand")
         => /\ error \notin ExpansionErrors
            /\ Len(broadcast_args) = Len(args)
            /\ \A i \in Groups :
                 /\ broadcast_args[i] = TargetShape(i)
                 /\ args[i] = TargetShape(i) => broadcast_args[i] = args[i]
                 /\ broadcast_to(broadcast_args[i], TargetShape(i))
                        = Ok(broadcast_args[i])

\* expansion has returned: it has stretched the first argument and left the
\* second, which had its target shape, as it was
C13_Witness ==
    /\ Reached("expand")
    /\ error = ""
    /\ Len(args) = 2
    /\ broadcast_args[1] # args[1]
    /\ broadcast_args[2] = args[2]

(***************************************************************************)
(* C14.  Calls to one wrapped function are independent: after any earlier  *)
(* calls, returned or raised, with or without axis, the outcome of a call  *)
(* (result shapes or error) is the outcome the same call has when it is    *)
(* the first one.  The dimension-size table and the broadcast shape hold   *)
(* nothing until the call's own resolution creates them, and between calls *)
(* the captured core-dimension lists are what decoration parsed.           *)
(***************************************************************************)
\* the lists as decoration parsed them
ParsedInputs == parse_gufunc_signature(signature).sides[1]
ParsedOutputs == parse_gufunc_signature(signature).sides[2]

Failed(e) == [error |-> e, result |-> NoResult]

\* the arguments as resolution gets them in a call that nothing precedes
AloneRebound(icd, ocd, as, ax) ==
    IF ax = None THEN Ok(as)
    ELSE IF verify_axis_is_supported(icd, ocd).error # ""
    THEN verify_axis_is_supported(icd, ocd)
    ELSE reorder_inputs(as, ax[1], icd)

\* broadcast_with_core_dims on its own
AloneExpanded(icd, as) ==
    IF Len(as) # Len(icd) THEN Raise("ArityMismatch")
    ELSE LET r == parse_input_dimensions(as, icd)
         IN  IF r.error # "" THEN r
             ELSE LET sh == [i \in 1..Len(icd) |->
                               calculate_shape(r.value.broadcast_shape,
                                               r.value.dim_sizes, icd[i])]
                      b == [i \in 1..Len(as) |->
                               broadcast_to(as[i], sh[i].value)]
                  IN  IF \E i \in 1..Len(icd) : sh[i].error # ""
                      THEN Raise("KeyError")
                      ELSE IF \E i \in 1..Len(as) : b[i].error # ""
                      THEN Raise("BroadcastError")
                      ELSE Ok([i \in 1..Len(as) |-> b[i].value])

\* the outcome of wrapper(*as, axis=ax) as a first call
CallAlone(icd, ocd, as, ax) ==
    LET a == AloneRebound(icd, ocd, as, ax)
    IN  IF a.error # "" THEN Failed(a.error)
        ELSE LET b == AloneExpanded(icd, a.value)
        IN  IF b.error # "" THEN Failed(b.error)
        ELSE LET r == VmapCall(VmapApplications(NumBatchDims(b.value, icd)),
                               icd, ocd, b.value)
        IN  IF r.error # "" THEN Failed(r.error)
        ELSE IF ax = None THEN [error |-> "", result |-> r.value]
        ELSE LET o == reorder_outputs(r.value, ax[1], ocd)
        IN  IF o.error # "" THEN Failed(o.error)
            ELSE [error |-> "", result |-> o.value]

C14_CallsAreIndependent ==
    /\ pc = "idle"
         => /\ input_core_dims = ParsedInputs
            /\ output_core_dims = ParsedOutputs
    /\ ~Reached("resolve") => dim_sizes = <<>> /\ broadcast_shape = <<>>
    /\ pc = "done"
         => [error |-> error, result |-> result]
                = CallAlone(input_core_dims, output_core_dims, call_args, axis)

\* a call with an explicit axis has returned, resolved with a table of its
\* own, after a call that raised
C14_Witness ==
    /\ pc = "done"
    /\ previous = "raised"
    /\ error = ""
    /\ axis # None
    /\ dim_sizes # <<>>

====
